---- MODULE Spec2Model ----
(***************************************************************************)
(* State-machine model of genomeloader/generator.py, class                 *)
(* MultiBedGenerator: construction (__init__), the epoch scheduler         *)
(* (on_epoch_end), the negative sampler (_reset_negatives) and the batch   *)
(* indexing of __len__ / __getitem__.                                      *)
(*                                                                         *)
(* A BED file (pybedtools.BedTool) is the sequence of its lines; a line is *)
(* a half-open interval [s, e) on the one chromosome of the model genome.  *)
(* The pybedtools / bedtools calls the generator makes (cat, slop,         *)
(* shuffle) are modelled by what bedtools does on such files.  Genome and  *)
(* signal arrays are external collaborators: a batch is modelled by the    *)
(* rows it slices and the fetch window it computes for each row.           *)
(***************************************************************************)
EXTENDS Integers, Sequences, FiniteSets, TLC

\* ------------------------------------------------------------------ bounds
\* Length of the single chromosome of the model genome.
ChromLen == 8
\* on_epoch_end is called at most this many times after construction.
MaxEpoch == 1
\* __getitem__ is called with index in -MaxIndex..MaxIndex.
MaxIndex == 2

\* ------------------------------------------------------- intervals, files
iv(s, e) == [s |-> s, e |-> e]

Range(f) == {f[i] : i \in DOMAIN f}

Min2(a, b) == IF a < b THEN a ELSE b
Max2(a, b) == IF a > b THEN a ELSE b

\* Two BED lines share at least one base.
Overlaps(a, b) == a.s < b.e /\ b.s < a.e

\* int(x / 2) of Python: true division, then truncation toward zero.
IntHalf(x) == IF x >= 0 THEN x \div 2 ELSE -((-x) \div 2)

\* bedtools sort | bedtools merge: the sorted, pairwise disjoint intervals
\* covering the same bases (overlapping and book-ended lines are joined).
RECURSIVE MergeFrom(_, _)
MergeFrom(p, bases) ==
    IF p >= ChromLen THEN <<>>
    ELSE IF p \notin bases THEN MergeFrom(p + 1, bases)
    ELSE LET stop == CHOOSE q \in (p + 1)..ChromLen :
                        /\ \A r \in p..(q - 1) : r \in bases
                        /\ (q = ChromLen \/ q \notin bases)
         IN  <<iv(p, stop)>> \o MergeFrom(stop, bases)

Bases(bt) == {p \in 0..(ChromLen - 1) : \E x \in Range(bt) : x.s <= p /\ p < x.e}

Merge(bt) == MergeFrom(0, Bases(bt))

\* BedTool.cat(*others, postmerge=...): concatenate the files' lines, then
\* sort and merge when postmerge is set (the pybedtools default).
cat(a, b, postmerge) == IF postmerge THEN Merge(a \o b) ELSE a \o b

\* BedTool.slop(b=margin): every line grows by margin on both sides and is
\* clipped to the chromosome.
slop(bt, margin) ==
    [i \in DOMAIN bt |-> iv(Max2(0, bt[i].s - margin), Min2(ChromLen, bt[i].e + margin))]

\* bedtools shuffle -excl -noOverlapping: each line in turn gets a locus of
\* its own length inside the chromosome that overlaps neither an excluded
\* line nor a line placed before it.  The set of complete placements.
Loci(x) == {iv(p, p + (x.e - x.s)) : p \in 0..(ChromLen - (x.e - x.s))}

FreeLoci(x, excl) == {l \in Loci(x) : \A y \in Range(excl) : ~Overlaps(l, y)}

RECURSIVE shuffle_bt(_, _)
shuffle_bt(lines, excl) ==
    IF lines = <<>> THEN {<<>>}
    ELSE UNION {{<<l>> \o rest : rest \in shuffle_bt(Tail(lines), Append(excl, l))}
                : l \in FreeLoci(Head(lines), excl)}

\* bedtools gives up on a line for which its random loci all hit the
\* exclusion; it reports that on stderr, which pybedtools raises as
\* BEDToolsError.  The shuffle is exhausted when, after some placement of
\* the lines before it, a line has no free locus left.
RECURSIVE CanExhaust(_, _)
CanExhaust(lines, excl) ==
    /\ lines # <<>>
    /\ \/ FreeLoci(Head(lines), excl) = {}
       \/ \E l \in FreeLoci(Head(lines), excl) : CanExhaust(Tail(lines), Append(excl, l))


\* Every reordering of the rows of a table (sklearn.utils.shuffle).
RemoveAt(df, i) == SubSeq(df, 1, i - 1) \o SubSeq(df, i + 1, Len(df))

RECURSIVE Perms(_)
Perms(df) ==
    IF df = <<>> THEN {<<>>}
    ELSE UNION {{<<df[i]>> \o rest : rest \in Perms(RemoveAt(df, i))} : i \in DOMAIN df}

\* ------------------------------------------------------ constructor inputs
NoBed == [given |-> FALSE, bt |-> <<>>]
SomeBed(bt) == [given |-> TRUE, bt |-> bt]

\* beds (a list of BED files) with the optional extra BED file.
InputChoices ==
    { [beds |-> << <<iv(0, 2)>> >>, extra |-> NoBed],
      [beds |-> << <<iv(2, 4)>>, <<iv(3, 4)>> >>, extra |-> SomeBed(<<iv(6, 8)>>)] }

BlacklistChoices == {NoBed, SomeBed(<<iv(7, 8)>>)}

BatchSizeChoices == {1, 2}

\* window_len, with its Python type, and seq_len.
PyInt(v) == [type |-> "int", v |-> v]
PyFloat(v) == [type |-> "float", v |-> v]

SizeChoices ==
    { [window_len |-> PyInt(-2), seq_len |-> 2],
      [window_len |-> PyInt(0), seq_len |-> 2],
      [window_len |-> PyInt(2), seq_len |-> 2],
      [window_len |-> PyInt(2), seq_len |-> 4],
      [window_len |-> PyFloat(2), seq_len |-> 4] }

RatioChoices == {0, 1, 2}

JitterChoices == {"sliding", "detection", "None", "bogus"}

Args ==
    { [input |-> i, blacklist |-> b, batch_size |-> n, window_len |-> z.window_len,
       seq_len |-> z.seq_len, negatives_ratio |-> k, jitter_mode |-> j, shuffle |-> sh]
      : i \in InputChoices, b \in BlacklistChoices, n \in BatchSizeChoices,
        z \in SizeChoices, k \in RatioChoices, j \in JitterChoices, sh \in BOOLEAN }

\* ------------------------------------------------------------------- state
VARIABLES
    args,                      \* the arguments __init__ is called with
    status,                    \* "new" | "ok" (constructed) | "raised" (__init__ raised)
    error,                     \* the exception __init__ raised, or "none"
    epoch_i,                   \* self.epoch_i
    master_bed,                \* self.master_bed (lines of its file)
    negative_windows_epoch_i,  \* self.negative_windows_epoch_i (the negative pool)
    cumulative_excl_bt,        \* self.cumulative_excl_bt (the exclusion region)
    intervals_df_epoch_i,      \* self.intervals_df_epoch_i (the epoch's interval table)
    ret,                       \* what the last call did and returned
    cycle_pools                \* history: the pools placed since the last reset

vars == <<args, status, error, epoch_i, master_bed, negative_windows_epoch_i,
          cumulative_excl_bt, intervals_df_epoch_i, ret, cycle_pools>>

NoRet == [op |-> "none", index |-> 0, rows |-> <<>>, windows |-> <<>>,
          raised |-> "none", outcome |-> "none"]

Init ==
    /\ args \in Args
    /\ status = "new"
    /\ error = "none"
    /\ epoch_i = -1
    /\ master_bed = <<>>
    /\ negative_windows_epoch_i = <<>>
    /\ cumulative_excl_bt = <<>>
    /\ intervals_df_epoch_i = <<>>
    /\ ret = NoRet
    /\ cycle_pools = <<>>

\* ------------------------------------------------------------- __init__
\* master_bed_bt of lines 16-22.
RECURSIVE ConcatAll(_)
ConcatAll(files) == IF files = <<>> THEN <<>> ELSE Head(files) \o ConcatAll(Tail(files))

MasterBed(input) ==
    LET m == IF Len(input.beds) = 1 THEN input.beds[1] ELSE Merge(ConcatAll(input.beds))
    IN  IF input.extra.given THEN cat(m, input.extra.bt, TRUE) ELSE m

\* The three configuration checks, in the order the constructor makes them.
jitter_modes == {"sliding", "detection", "None"}

WindowLenRejected(w) == w.type # "int" \/ w.v < 0

ConfigError(a) ==
    IF WindowLenRejected(a.window_len) THEN "ValueError"
    ELSE IF a.seq_len <= a.window_len.v THEN "ValueError"
    ELSE IF a.jitter_mode \notin jitter_modes THEN "ValueError"
    ELSE "none"

\* The attributes __init__ has assigned on self when it calls
\* _reset_negatives.
SelfAttrs ==
    {"beds", "master_bed", "genome", "signals", "blacklist", "batch_size", "epoch_i",
     "intervals_df_epoch_i", "window_len", "seq_len", "output_seq_len",
     "negatives_ratio", "return_sequences", "return_output", "jitter_mode",
     "shuffle", "chromsizes", "negative_windows_epoch_i", "cumulative_excl_bt"}

\* ------------------------------------------------------ _reset_negatives
RECURSIVE Replicate(_, _)
Replicate(k, bt) == IF k <= 0 THEN <<>> ELSE bt \o Replicate(k - 1, bt)

\* The margin handed to slop: window_len / 2, of which bedtools uses the
\* whole bases.
SlopMargin_None(a) == 0

SlopMargin(a) == a.window_len.v \div 2

BaseExcl(a, master) ==
    LET padded == IF a.jitter_mode = "sliding" THEN slop(master, SlopMargin(a)) ELSE master
    IN  IF a.blacklist.given THEN cat(padded, a.blacklist.bt, TRUE) ELSE padded

\* [raised, pool, excl]: the exception the call raises (then pool and excl
\* are as before the call) or the sampler state it leaves.
reset_negatives(a, master, pool, excl) ==
    IF a.negatives_ratio > 1 /\ "bed" \notin SelfAttrs
    THEN [raised |-> "AttributeError", pool |-> pool, excl |-> excl]
    ELSE [raised |-> "none",
          pool   |-> IF a.negatives_ratio > 1 THEN Replicate(a.negatives_ratio, master)
                     ELSE IF a.negatives_ratio = 1 THEN master
                     ELSE <<>>,
          excl   |-> BaseExcl(a, master)]

\* ---------------------------------------------------------- on_epoch_end
\* Line 139: the call returns right after counting the epoch.
SkipRefresh_LateFreeze(e, sh) == e > 1 /\ ~sh

SkipRefresh(e, sh) == e > 0 /\ ~sh

\* Line 143: the exclusion region takes in the pool of the epoch that ends.
AbsorbPool_Dropped(excl, pool) == excl

AbsorbPool(excl, pool) == cat(excl, pool, FALSE)

\* Lines 145-148: the pool is shuffled with the exclusion region as excl
\* and noOverlapping set.
ShuffleCall_NoExcl(pool, excl) == shuffle_bt(pool, <<>>)

ShuffleCall(pool, excl) == shuffle_bt(pool, excl)

\* The ways the bedtools shuffle of line 145 can fail with BEDToolsError:
\* exhaustion, or any other error bedtools reports.
ShuffleFailures(pool, excl) ==
    (IF CanExhaust(pool, excl) THEN {"exhausted"} ELSE {}) \cup {"other"}

\* Lines 156-157.
sklearn_shuffle(df, sh) == IF sh THEN Perms(df) ELSE {df}

\* Every result a call can have, from the state it starts in.
on_epoch_end(a, master, ep, pool, excl, table) ==
    LET e1 == ep + 1 IN
    IF SkipRefresh(e1, a.shuffle)
    THEN {[epoch_i |-> e1, pool |-> pool, excl |-> excl, table |-> table,
           outcome |-> "skipped", raised |-> "none"]}
    ELSE LET excl1  == AbsorbPool(excl, pool)
             placed == {[pool |-> p, excl |-> excl1, outcome |-> "ok", raised |-> "none"]
                        : p \in ShuffleCall(pool, excl1)}
             rs     == reset_negatives(a, master, pool, excl1)
             failed == {[pool |-> rs.pool, excl |-> rs.excl, outcome |-> f,
                         raised |-> rs.raised] : f \in ShuffleFailures(pool, excl1)}
         IN  UNION {{[epoch_i |-> e1, pool |-> r.pool, excl |-> r.excl, table |-> t,
                      outcome |-> r.outcome, raised |-> r.raised]
                     : t \in IF r.raised = "none"
                             THEN sklearn_shuffle(master \o r.pool, a.shuffle)
                             ELSE {table}}
                    : r \in placed \cup failed}

\* History of the pools placed since the last reset.
CyclePools(hist, r) ==
    IF r.outcome = "ok" THEN Append(hist, r.pool)
    ELSE IF r.outcome = "skipped" THEN hist
    ELSE <<>>

Construct ==
    /\ status = "new"
    /\ LET master == MasterBed(args.input)
           rs     == reset_negatives(args, master, <<>>, <<>>)
       IN  IF ConfigError(args) # "none"
           THEN /\ status' = "raised"
                /\ error' = ConfigError(args)
                /\ ret' = [NoRet EXCEPT !.op = "__init__", !.raised = ConfigError(args)]
                /\ UNCHANGED <<epoch_i, master_bed, negative_windows_epoch_i,
                               cumulative_excl_bt, intervals_df_epoch_i, cycle_pools>>
           ELSE IF rs.raised # "none"
           THEN /\ status' = "raised"
                /\ error' = rs.raised
                /\ ret' = [NoRet EXCEPT !.op = "__init__", !.raised = rs.raised]
                /\ UNCHANGED <<epoch_i, master_bed, negative_windows_epoch_i,
                               cumulative_excl_bt, intervals_df_epoch_i, cycle_pools>>
           ELSE \E r \in on_epoch_end(args, master, -1, rs.pool, rs.excl, <<>>) :
                /\ status' = "ok"
                /\ error' = "none"
                /\ master_bed' = master
                /\ epoch_i' = r.epoch_i
                /\ negative_windows_epoch_i' = r.pool
                /\ cumulative_excl_bt' = r.excl
                /\ intervals_df_epoch_i' = r.table
                /\ cycle_pools' = CyclePools(<<>>, r)
                /\ ret' = [NoRet EXCEPT !.op = "__init__", !.outcome = r.outcome]
    /\ UNCHANGED args

OnEpochEnd ==
    /\ status = "ok"
    /\ epoch_i < MaxEpoch
    /\ \E r \in on_epoch_end(args, master_bed, epoch_i, negative_windows_epoch_i,
                             cumulative_excl_bt, intervals_df_epoch_i) :
        /\ epoch_i' = r.epoch_i
        /\ negative_windows_epoch_i' = r.pool
        /\ cumulative_excl_bt' = r.excl
        /\ intervals_df_epoch_i' = r.table
        /\ cycle_pools' = CyclePools(cycle_pools, r)
        /\ ret' = [NoRet EXCEPT !.op = "on_epoch_end", !.outcome = r.outcome,
                                !.raised = r.raised]
    /\ UNCHANGED <<args, status, error, master_bed>>

\* ------------------------------------------------- __len__, __getitem__
\* int(np.ceil(len(table) / batch_size)).
len_batches_Floor(table, bs) == Len(table) \div bs

len_batches(table, bs) == (Len(table) \div bs) + (IF Len(table) % bs = 0 THEN 0 ELSE 1)

\* table[a:b] of Python: negative bounds count from the end, both are
\* clamped to the table, an empty range gives no row.
SliceBound(n, k) == IF k < 0 THEN Max2(0, n + k) ELSE Min2(k, n)

Slice(table, a, b) ==
    LET lo == SliceBound(Len(table), a)
        hi == SliceBound(Len(table), b)
    IN  IF lo < hi THEN SubSeq(table, lo + 1, hi) ELSE <<>>

\* Line 70.
BatchRows(table, bs, index) == Slice(table, index * bs, (index + 1) * bs)

\* Lines 79-85, doubled so that halves stay integers: 2 * shift_size.
ShiftSize2(a, row) ==
    IF a.jitter_mode = "sliding"
    THEN Max2(row.e - row.s, 2 * IntHalf(a.window_len.v - (row.e - row.s)))
    ELSE IF a.jitter_mode = "detection" THEN a.seq_len
    ELSE 0

\* Line 86: the shifts np.random.randint(-shift_size, shift_size + 1) draws.
Shifts(a, row) == (-(ShiftSize2(a, row) \div 2))..(ShiftSize2(a, row) \div 2)

\* Lines 87-89: the window fetched for a row shifted by s.
Window(a, row, s) ==
    LET start == IntHalf(row.s + row.e + 2 * s - a.seq_len)
    IN  [chrom_start |-> row.s, chrom_end |-> row.e, start |-> start,
         stop |-> start + a.seq_len]

\* Lines 74-92: the windows a batch can fetch, one per row, each row with
\* its own draw.
RECURSIVE Windows(_, _)
Windows(a, rows) ==
    IF rows = <<>> THEN {<<>>}
    ELSE {<<Window(a, Head(rows), s)>> \o rest :
            s \in Shifts(a, Head(rows)), rest \in Windows(a, Tail(rows))}

GetItem ==
    /\ status = "ok"
    /\ \E index \in (-MaxIndex)..MaxIndex :
        LET rows == BatchRows(intervals_df_epoch_i, args.batch_size, index) IN
        \E w \in Windows(args, rows) :
            ret' = [op |-> "__getitem__", index |-> index, rows |-> rows,
                    windows |-> w, raised |-> "none", outcome |-> "none"]
    /\ UNCHANGED <<args, status, error, epoch_i, master_bed, negative_windows_epoch_i,
                   cumulative_excl_bt, intervals_df_epoch_i, cycle_pools>>

Next == Construct \/ OnEpochEnd \/ GetItem

Spec == Init /\ [][Next]_vars


\* ------------------------------------------------------------ properties
\* A positive interval with the margin a negative has to keep from it.
Padded(p) ==
    IF args.jitter_mode = "sliding"
    THEN iv(p.s - args.window_len.v \div 2, p.e + args.window_len.v \div 2)
    ELSE p

\* No line of bt overlaps a (padded) positive interval or a blacklist line.
NoOverlap(bt) ==
    \A n \in Range(bt) :
        /\ \A p \in Range(master_bed) : ~Overlaps(n, Padded(p))
        /\ \A b \in Range(args.blacklist.bt) : ~Overlaps(n, b)

\* Every base of line x lies in some line of bt.
Covered(x, bt) == \A q \in x.s..(x.e - 1) : \E y \in Range(bt) : y.s <= q /\ q < y.e

\* C1: with negatives_ratio = 1, a pool placed by a successful shuffle has
\* no interval overlapping a positive interval (padded by window_len / 2
\* under sliding jitter) or a blacklist interval.
C1_PlacedPoolAvoidsPositives ==
    (status = "ok" /\ args.negatives_ratio = 1 /\ cycle_pools # <<>>)
        => NoOverlap(negative_windows_epoch_i)

C1_Witness ==
    /\ status = "ok" /\ args.negatives_ratio = 1
    /\ args.jitter_mode = "sliding" /\ args.window_len.v = 2 /\ args.blacklist.given
    /\ ret.op = "on_epoch_end" /\ ret.outcome = "ok"
    /\ negative_windows_epoch_i # <<>>

\* C2: with negatives_ratio = 1, the pool an on_epoch_end call leaves after
\* exhaustion and reset overlaps no (padded) positive interval and no
\* blacklist interval.
C2_ResetPoolAvoidsPositives ==
    (status = "ok" /\ args.negatives_ratio = 1
     /\ ret.op = "on_epoch_end" /\ ret.outcome = "exhausted")
        => NoOverlap(negative_windows_epoch_i)

\* C3: a failure of the union/shuffle step is recovered (normal return)
\* only when it is exhaustion; any other interval-set failure is raised to
\* the caller of on_epoch_end.
C3_FailuresClassifiedByKind ==
    ret.op = "on_epoch_end" =>
        /\ ret.outcome = "exhausted" => ret.raised = "none"
        /\ ret.outcome = "other" => ret.raised = "BEDToolsError"

\* C4: with shuffle = false, an on_epoch_end call on a constructed generator
\* adds one to the epoch counter and leaves the interval table, the negative
\* pool and the exclusion region as they were.
C4_FrozenWithoutShuffle ==
    [][(status = "ok" /\ ~args.shuffle /\ epoch_i' # epoch_i)
        => /\ epoch_i' = epoch_i + 1
           /\ UNCHANGED <<intervals_df_epoch_i, negative_windows_epoch_i,
                          cumulative_excl_bt>>]_vars

C4_Witness ==
    /\ status = "ok" /\ ~args.shuffle /\ args.negatives_ratio = 1
    /\ ret.op = "on_epoch_end" /\ epoch_i >= 1
    /\ Len(intervals_df_epoch_i) >= 2

\* C5: the batch count is ceil(len(table) / batch_size), and the slices of
\* batches 0 .. count - 1, in order, are the table: full batches, then
\* possibly one shorter last batch, no row missing or repeated.
RECURSIVE ConcatBatches(_, _)
ConcatBatches(i, count) ==
    IF i >= count THEN <<>>
    ELSE BatchRows(intervals_df_epoch_i, args.batch_size, i) \o ConcatBatches(i + 1, count)

C5_BatchesPartitionTable ==
    status = "ok" =>
        LET n     == Len(intervals_df_epoch_i)
            bs    == args.batch_size
            count == len_batches(intervals_df_epoch_i, bs)
        IN  /\ count >= 0 /\ count * bs >= n /\ (count - 1) * bs < n
            /\ ConcatBatches(0, count) = intervals_df_epoch_i
            /\ \A i \in 0..(count - 2) :
                   Len(BatchRows(intervals_df_epoch_i, bs, i)) = bs
            /\ count > 0 =>
                   Len(BatchRows(intervals_df_epoch_i, bs, count - 1)) \in 1..bs

C5_Witness ==
    /\ status = "ok"
    /\ Len(intervals_df_epoch_i) % args.batch_size # 0
    /\ ret.op = "__getitem__"
    /\ ret.index = len_batches(intervals_df_epoch_i, args.batch_size) - 1
    /\ Len(ret.rows) \in 1..(args.batch_size - 1)

\* C6: with an integer negatives_ratio k > 1 and an otherwise valid
\* configuration, construction succeeds and the pool holds k times as many
\* intervals as the positive set.
C6_RatioAboveOneReplicates ==
    (status # "new" /\ args.negatives_ratio > 1 /\ ConfigError(args) = "none")
        => /\ status = "ok"
           /\ Len(negative_windows_epoch_i) = args.negatives_ratio * Len(master_bed)

\* C7: construction fails with the invalid-configuration error exactly when
\* window_len is not a positive integer, or seq_len does not exceed
\* window_len, or jitter_mode is not a recognised mode.
C7_ValidationExact ==
    status # "new" =>
        (error = "ValueError" <=>
            \/ ~(args.window_len.type = "int" /\ args.window_len.v > 0)
            \/ args.seq_len <= args.window_len.v
            \/ args.jitter_mode \notin {"sliding", "detection", "None"})

\* C8: __getitem__ with an index outside 0 .. batch_count - 1 fails with an
\* out-of-bounds error and returns no batch.
C8_OutOfRangeIndexRaises ==
    (ret.op = "__getitem__"
     /\ (ret.index < 0
         \/ ret.index >= len_batches(intervals_df_epoch_i, args.batch_size)))
        => ret.raised = "IndexError"

\* A step that is an on_epoch_end call whose shuffle succeeded.
PlacedStep == status = "ok" /\ epoch_i' = epoch_i + 1 /\ ret'.outcome = "ok"

\* C9 as stated: after a successful call the exclusion region covers the
\* pool the call has just placed and everything it covered before.
C9_ExclCoversNewPool ==
    [][PlacedStep
        => /\ \A n \in Range(negative_windows_epoch_i') : Covered(n, cumulative_excl_bt')
           /\ \A x \in Range(cumulative_excl_bt) : Covered(x, cumulative_excl_bt')]_vars

\* C9 amended: after a successful call the exclusion region covers the pool
\* as it stood before the call and everything it covered before; the pool
\* just placed lies outside it (it is absorbed by the next call).  The
\* constructor's call starts from the reset state, whose pool is the
\* positive set.
C9_ExclCoversPreviousPool ==
    [][/\ PlacedStep
            => /\ \A n \in Range(negative_windows_epoch_i) : Covered(n, cumulative_excl_bt')
               /\ \A x \in Range(cumulative_excl_bt) : Covered(x, cumulative_excl_bt')
               /\ \A n \in Range(negative_windows_epoch_i'), y \in Range(cumulative_excl_bt') :
                      ~Overlaps(n, y)
       /\ (status = "new" /\ status' = "ok" /\ ret'.outcome = "ok")
            => /\ args.negatives_ratio = 1
                    => \A p \in Range(master_bed') : Covered(p, cumulative_excl_bt')
               /\ \A n \in Range(negative_windows_epoch_i'), y \in Range(cumulative_excl_bt') :
                      ~Overlaps(n, y)]_vars

C9_Witness ==
    /\ status = "ok" /\ ret.op = "on_epoch_end" /\ ret.outcome = "ok"
    /\ Len(cycle_pools) >= 2
    /\ negative_windows_epoch_i # <<>>
    /\ \A n \in Range(negative_windows_epoch_i) : ~Covered(n, cumulative_excl_bt)

\* C10: within one sampling cycle no negative window placed in an epoch
\* overlaps a negative window placed in an earlier epoch of the cycle.
C10_NoReuseWithinCycle ==
    \A i, j \in DOMAIN cycle_pools :
        i < j => \A x \in Range(cycle_pools[i]), y \in Range(cycle_pools[j]) :
                     ~Overlaps(x, y)

C10_Witness ==
    /\ status = "ok" /\ args.shuffle /\ args.negatives_ratio = 1
    /\ args.jitter_mode = "detection" /\ ~args.blacklist.given
    /\ Len(cycle_pools) >= 2
    /\ cycle_pools[1] # <<>> /\ cycle_pools[2] # <<>>

====
